---- MODULE Spec2Model ----
(***************************************************************************)
(* Model of src/chunk_type.rs: the 4-byte PNG chunk type tag (ChunkType),  *)
(* its two constructors (TryFrom<[u8;4]>, FromStr), the byte accessor,     *)
(* the classification predicates and Display.                              *)
(*                                                                         *)
(* A text (&str) is a sequence of Unicode scalar values; its bytes are its *)
(* UTF-8 encoding, so every text the model feeds to from_str is valid      *)
(* UTF-8, as the type &str guarantees.  A byte is a number in 0..255.      *)
(* A panic ends the program: no operation is enabled after one.  One       *)
(* constructor result is in scope at a time; Drop ends its scope and the   *)
(* next constructor call follows, so calls come in any sequence.           *)
(***************************************************************************)
EXTENDS Integers, Sequences, FiniteSets

VARIABLES op, input, res, text, flags, rt

vars == <<op, input, res, text, flags, rt>>

(* ---------------------------- bounds ----------------------------------- *)

\* longest text, in characters, handed to from_str
MaxLen == 5

\* byte values handed to try_from: the letters of the tests ("RuSt"), the
\* ends of both letter ranges, their outer neighbours, a digit, and the
\* ends of the u8 range and of the ASCII range
ByteSamples == {0, 49, 64, 65, 82, 83, 90, 91, 96, 97, 116, 117, 122, 123, 127, 128, 255}

\* characters of the texts handed to from_str: R u S t, the digit 1, and
\* one character of each multi-byte UTF-8 width (U+00E9, U+20AC, U+1F600)
CharSamples == {82, 117, 83, 116, 49, 233, 8364, 128512}

ByteArrays == [1..4 -> ByteSamples]

Texts == UNION {[1..n -> CharSamples] : n \in 0..MaxLen}

(* ---------------------------- values ----------------------------------- *)

None == [kind |-> "None"]

Panic == [kind |-> "Panic"]

\* struct ChunkType { bytes: [u8;4] }
ChunkType(value) == [bytes |-> value]

\* Result::Ok(ChunkType)
OkTag(value) == [kind |-> "Ok", tag |-> ChunkType(value)]

\* anyhow error "Invalid byte {}. Valid bytes are ..."
InvalidByte(byte) == [kind |-> "InvalidByte", byte |-> byte]

\* anyhow error "String must be 4 ASCII bytes"
MalformedInput == [kind |-> "MalformedInput"]

\* derive(PartialEq) on ChunkType: field-wise comparison of the array
eq(a, b) == \A i \in 1..4 : a.bytes[i] = b.bytes[i]

(* ------------------------- UTF-8 (str) --------------------------------- *)

\* UTF-8 encoding of one scalar value
EncodeChar(c) ==
    IF c < 128 THEN <<c>>
    ELSE IF c < 2048 THEN <<192 + (c \div 64), 128 + (c % 64)>>
    ELSE IF c < 65536 THEN
        <<224 + (c \div 4096), 128 + ((c \div 64) % 64), 128 + (c % 64)>>
    ELSE <<240 + (c \div 262144), 128 + ((c \div 4096) % 64),
           128 + ((c \div 64) % 64), 128 + (c % 64)>>

RECURSIVE as_bytes(_)
\* s.as_bytes(): the UTF-8 bytes of the text
as_bytes(s) ==
    IF s = <<>> THEN <<>> ELSE EncodeChar(Head(s)) \o as_bytes(Tail(s))

\* s.is_ascii(): every byte is below 128
is_ascii(s) == \A i \in 1..Len(as_bytes(s)) : as_bytes(s)[i] < 128

\* width of the UTF-8 sequence a lead byte starts, 0 when it starts none
Utf8Width(b) ==
    IF b < 128 THEN 1
    ELSE IF b >= 194 /\ b <= 223 THEN 2
    ELSE IF b >= 224 /\ b <= 239 THEN 3
    ELSE IF b >= 240 /\ b <= 244 THEN 4
    ELSE 0

IsCont(b) == b >= 128 /\ b <= 191

\* the second byte of a sequence: the ranges that exclude overlong forms,
\* surrogates and values above U+10FFFF
SecondOk(lead, b) ==
    IF lead = 224 THEN b >= 160 /\ b <= 191
    ELSE IF lead = 237 THEN b >= 128 /\ b <= 159
    ELSE IF lead = 240 THEN b >= 144 /\ b <= 191
    ELSE IF lead = 244 THEN b >= 128 /\ b <= 143
    ELSE IsCont(b)

DecodeChar(b, n) ==
    IF n = 1 THEN b[1]
    ELSE IF n = 2 THEN (b[1] - 192) * 64 + (b[2] - 128)
    ELSE IF n = 3 THEN (b[1] - 224) * 4096 + (b[2] - 128) * 64 + (b[3] - 128)
    ELSE (b[1] - 240) * 262144 + (b[2] - 128) * 4096
         + (b[3] - 128) * 64 + (b[4] - 128)

RECURSIVE from_utf8(_)
\* std::str::from_utf8: the text the bytes encode, or an error
from_utf8(b) ==
    IF b = <<>> THEN [ok |-> TRUE, chars |-> <<>>]
    ELSE LET n == Utf8Width(b[1]) IN
         IF n = 0 \/ Len(b) < n THEN [ok |-> FALSE, chars |-> <<>>]
         ELSE IF n >= 2 /\ ~SecondOk(b[1], b[2]) THEN [ok |-> FALSE, chars |-> <<>>]
         ELSE IF \E i \in 3..n : ~IsCont(b[i]) THEN [ok |-> FALSE, chars |-> <<>>]
         ELSE LET rest == from_utf8(SubSeq(b, n + 1, Len(b))) IN
              IF rest.ok
              THEN [ok |-> TRUE, chars |-> <<DecodeChar(b, n)>> \o rest.chars]
              ELSE [ok |-> FALSE, chars |-> <<>>]

(* --------------------------- ChunkType --------------------------------- *)

\* u8::is_ascii_uppercase: b'A'..=b'Z'
is_ascii_uppercase(b) == b >= 65 /\ b <= 90

\* u8::is_ascii_lowercase: b'a'..=b'z'
is_ascii_lowercase(b) == b >= 97 /\ b <= 122

is_valid_byte_one_range(byte) == byte >= 65 /\ byte <= 122

is_valid_byte_no_upper_bound(byte) == (byte >= 65 /\ byte <= 90) \/ byte >= 97

is_valid_byte(byte) ==
    (byte >= 65 /\ byte <= 90) \/
    (byte >= 97 /\ byte <= 122)

bytes_rev(self) == [i \in 1..4 |-> self.bytes[5 - i]]

\* self.bytes.clone()
bytes(self) == self.bytes

is_critical(self) == is_ascii_uppercase(self.bytes[1])

is_public_first(self) == is_ascii_uppercase(self.bytes[1])

is_public(self) == is_ascii_uppercase(self.bytes[2])

is_reserved_bit_valid(self) == is_ascii_uppercase(self.bytes[3])

is_safe_to_copy(self) == is_ascii_lowercase(self.bytes[4])

is_valid(self) ==
    is_reserved_bit_valid(self) /\
    is_valid_byte(self.bytes[1]) /\
    is_valid_byte(self.bytes[2]) /\
    is_valid_byte(self.bytes[3]) /\
    is_valid_byte(self.bytes[4])

RECURSIVE try_from_loop(_, _)
\* the for loop of try_from, from index i on: bail at the first invalid byte
try_from_loop(value, i) ==
    IF i > 4 THEN OkTag(value)
    ELSE IF ~is_valid_byte(value[i]) THEN InvalidByte(value[i])
    ELSE try_from_loop(value, i + 1)

RECURSIVE try_from_last(_, _)
try_from_last(value, i) ==
    IF i < 1 THEN OkTag(value)
    ELSE IF ~is_valid_byte(value[i]) THEN InvalidByte(value[i])
    ELSE try_from_last(value, i - 1)

try_from_report_last(value) == try_from_last(value, 4)

try_from_skip_last(value) ==
    IF \E i \in 1..3 : ~is_valid_byte(value[i])
    THEN try_from_loop(value, 1)
    ELSE OkTag(value)

\* TryFrom<[u8;4]>::try_from
try_from(value) == try_from_loop(value, 1)

from_str_or(s) ==
    LET b == as_bytes(s) IN
    IF Len(b) /= 4 \/ ~is_ascii(s) THEN MalformedInput
    ELSE try_from(<<b[1], b[2], b[3], b[4]>>)

\* FromStr::from_str; indexing bytes[0..3] of a shorter slice panics
from_str(s) ==
    LET b == as_bytes(s) IN
    IF Len(b) /= 4 /\ ~is_ascii(s) THEN MalformedInput
    ELSE IF Len(b) < 4 THEN Panic
    ELSE try_from(<<b[1], b[2], b[3], b[4]>>)

to_string_lower(self) ==
    LET d == from_utf8(self.bytes) IN
    IF d.ok
    THEN [kind |-> "Str",
          chars |-> [i \in 1..Len(d.chars) |->
                       IF is_ascii_uppercase(d.chars[i])
                       THEN d.chars[i] + 32 ELSE d.chars[i]]]
    ELSE Panic

\* Display::fmt through to_string(): expect() panics when from_utf8 fails
to_string(self) ==
    LET d == from_utf8(self.bytes) IN
    IF d.ok THEN [kind |-> "Str", chars |-> d.chars] ELSE Panic

(* ---------------------------- actions ---------------------------------- *)

Halted == res.kind = "Panic" \/ text.kind = "Panic"
             \/ (rt.kind = "RT" /\ rt.out.kind = "Panic")

HasTag == res.kind = "Ok"

Init ==
    /\ op = "none"
    /\ input = <<>>
    /\ res = None
    /\ text = None
    /\ flags = None
    /\ rt = None

\* let r = ChunkType::try_from(value)
TryFrom ==
    /\ op = "none"
    /\ \E value \in ByteArrays :
         /\ input' = value
         /\ res' = try_from(value)
    /\ op' = "try_from"
    /\ text' = None
    /\ flags' = None
    /\ rt' = None

\* let r = ChunkType::from_str(s)
FromStr ==
    /\ op = "none"
    /\ \E s \in Texts :
         /\ input' = s
         /\ res' = from_str(s)
    /\ op' = "from_str"
    /\ text' = None
    /\ flags' = None
    /\ rt' = None

\* chunk.to_string()
Display ==
    /\ ~Halted
    /\ HasTag
    /\ text = None
    /\ text' = to_string(res.tag)
    /\ UNCHANGED <<op, input, res, flags, rt>>

\* the five classification predicates, evaluated on the tag
Classify ==
    /\ ~Halted
    /\ HasTag
    /\ flags = None
    /\ flags' = [kind |-> "Flags",
                 critical |-> is_critical(res.tag),
                 public |-> is_public(res.tag),
                 reserved |-> is_reserved_bit_valid(res.tag),
                 safe |-> is_safe_to_copy(res.tag),
                 valid |-> is_valid(res.tag)]
    /\ UNCHANGED <<op, input, res, text, rt>>

\* ChunkType::from_str(&chunk.to_string())
RoundTripStr ==
    /\ ~Halted
    /\ HasTag
    /\ rt = None
    /\ LET s == to_string(res.tag) IN
       rt' = [kind |-> "RT", via |-> "str",
              out |-> IF s.kind = "Str" THEN from_str(s.chars) ELSE Panic]
    /\ UNCHANGED <<op, input, res, text, flags>>

\* ChunkType::try_from(chunk.bytes())
RoundTripBytes ==
    /\ ~Halted
    /\ HasTag
    /\ rt = None
    /\ rt' = [kind |-> "RT", via |-> "bytes", out |-> try_from(bytes(res.tag))]
    /\ UNCHANGED <<op, input, res, text, flags>>

\* the result and everything derived from it go out of scope; the next
\* constructor call starts from here
Drop ==
    /\ ~Halted
    /\ op /= "none"
    /\ op' = "none"
    /\ input' = <<>>
    /\ res' = None
    /\ text' = None
    /\ flags' = None
    /\ rt' = None

Next ==
    \/ TryFrom
    \/ FromStr
    \/ Display
    \/ Classify
    \/ RoundTripStr
    \/ RoundTripBytes
    \/ Drop

Spec == Init /\ [][Next]_vars

(* ---------------------------- claims ----------------------------------- *)

Letters == (65..90) \cup (97..122)

RuSt == <<82, 117, 83, 116>>

Rust == <<82, 117, 115, 116>>

\* byte length of the text handed to from_str
InputByteLen == Len(as_bytes(input))

InputHasNonAscii == \E i \in 1..Len(input) : input[i] >= 128

\* every Tag value the state holds
TagsInState ==
    (IF res.kind = "Ok" THEN {res.tag} ELSE {})
    \cup (IF rt.kind = "RT" /\ rt.out.kind = "Ok" THEN {rt.out.tag} ELSE {})

\* C1 (as claimed): every from_str call ends in a Tag, an InvalidByte error
\* or a MalformedInput error, never in a panic.
C1_ThreeOutcomes ==
    op = "from_str" => res.kind \in {"Ok", "InvalidByte", "MalformedInput"}

\* C2: on a 4-byte array of letters, try_from succeeds and bytes() of the
\* Tag is the input array, position by position.
C2_FromBytesKeepsBytes ==
    (op = "try_from" /\ \A i \in 1..4 : input[i] \in Letters)
        => /\ res.kind = "Ok"
           /\ Len(bytes(res.tag)) = 4
           /\ \A i \in 1..4 : bytes(res.tag)[i] = input[i]

C2_Witness ==
    op = "try_from" /\ input = RuSt /\ res.kind = "Ok" /\ bytes(res.tag) = RuSt

\* C3: on a 4-byte array with a non-letter byte, try_from fails with
\* InvalidByte naming the byte at the lowest invalid index; no Tag exists.
C3_FirstInvalidByte ==
    (op = "try_from" /\ \E i \in 1..4 : input[i] \notin Letters)
        => LET first == CHOOSE i \in 1..4 :
                            /\ input[i] \notin Letters
                            /\ \A j \in 1..(i - 1) : input[j] \in Letters
           IN /\ res.kind = "InvalidByte"
              /\ res.byte = input[first]
              /\ TagsInState = {}

C3_Witness ==
    /\ op = "try_from"
    /\ input = <<82, 49, 83, 0>>
    /\ res.kind = "InvalidByte"
    /\ res.byte = 49

\* C4: every Tag that exists, whichever constructor built it, has exactly
\* 4 bytes, each in 65..90 or 97..122.
C4_TagBytesAreLetters ==
    \A t \in TagsInState :
        Len(t.bytes) = 4 /\ \A i \in 1..4 : t.bytes[i] \in Letters

\* a Tag built by from_str from an ASCII text longer than 4 bytes
C4_Witness ==
    op = "from_str" /\ InputByteLen > 4 /\ ~InputHasNonAscii /\ res.kind = "Ok"

\* C5: from_str returns MalformedInput exactly when the text's byte length
\* is not 4 and the text is not pure ASCII.
C5_MalformedExactly ==
    op = "from_str"
        => (res.kind = "MalformedInput" <=> (InputByteLen /= 4 /\ InputHasNonAscii))

C5_Witness ==
    op = "from_str" /\ res.kind = "MalformedInput" /\ InputByteLen = 3

\* C6 (as claimed): for a text that passes the precondition (byte length 4,
\* or pure ASCII), from_str gives the outcome of try_from on the text's
\* first 4 bytes.
C6_DelegatesFirstFour ==
    (op = "from_str" /\ (InputByteLen = 4 \/ ~InputHasNonAscii))
        => /\ InputByteLen >= 4
           /\ res = try_from(SubSeq(as_bytes(input), 1, 4))

\* C7: for a constructed Tag t, from_str(to_string(t)) and
\* try_from(t.bytes()) both succeed with a Tag equal to t.
C7_RoundTrip ==
    rt.kind = "RT" => (rt.out.kind = "Ok" /\ eq(rt.out.tag, res.tag))

C7_Witness ==
    /\ rt.kind = "RT"
    /\ rt.via = "str"
    /\ rt.out.kind = "Ok"
    /\ res.tag.bytes = RuSt
    /\ rt.out.tag.bytes = RuSt

\* C8: each classification predicate is decided by its own byte: critical
\* by byte 0 uppercase, public by byte 1 uppercase, reserved-bit-valid by
\* byte 2 uppercase, safe-to-copy by byte 3 lowercase, valid by byte 2
\* uppercase and all four bytes letters.
C8_FlagsPerByte ==
    flags.kind = "Flags"
        => LET b == res.tag.bytes IN
           /\ flags.critical <=> (b[1] \in 65..90)
           /\ flags.public <=> (b[2] \in 65..90)
           /\ flags.reserved <=> (b[3] \in 65..90)
           /\ flags.safe <=> (b[4] \in 97..122)
           /\ flags.valid <=> (b[3] \in 65..90 /\ \A i \in 1..4 : b[i] \in Letters)
           /\ (b = RuSt => /\ flags.critical /\ ~flags.public /\ flags.reserved
                           /\ flags.safe /\ flags.valid)
           /\ (b = Rust => ~flags.reserved /\ ~flags.valid)

C8_Witness ==
    /\ flags.kind = "Flags"
    /\ res.tag.bytes = RuSt
    /\ flags.critical
    /\ ~flags.public
    /\ flags.safe

\* C9: to_string never panics on a constructed Tag and gives exactly 4
\* characters whose code points are the Tag's bytes, in order, case kept.
C9_DisplayExact ==
    /\ text.kind /= "Panic"
    /\ text.kind = "Str"
          => /\ Len(text.chars) = 4
             /\ \A i \in 1..4 : text.chars[i] = res.tag.bytes[i]

C9_Witness ==
    text.kind = "Str" /\ res.tag.bytes = RuSt /\ text.chars = RuSt

\* C10: on every constructed Tag is_valid equals is_reserved_bit_valid.
C10_ValidIsReserved ==
    /\ HasTag => (is_valid(res.tag) <=> is_reserved_bit_valid(res.tag))
    /\ flags.kind = "Flags" => (flags.valid <=> flags.reserved)

C10_Witness ==
    /\ flags.kind = "Flags"
    /\ flags.reserved
    /\ flags.valid
    /\ op = "try_from"

====
